---- MODULE Spec2Model ----
(***************************************************************************)
(* SimpleVector<Type> (simple_vector.h) on top of ArrayPtr<Type>           *)
(* (array_ptr.h), instantiated as in the tests with Type = int.            *)
(*                                                                         *)
(* Two SimpleVector objects, "a" and "b", live on a heap of blocks.  A     *)
(* block is the array made by `new Type[n]`; a pointer is a block number,  *)
(* 0 is nullptr.  Slot i of the C++ array is element i + 1 of the block.   *)
(* Arguments of PushBack / Insert are values that do not alias an element  *)
(* of the array they are given to.                                         *)
(***************************************************************************)
EXTENDS Integers, Sequences, FiniteSets, TLC

VARIABLES vecs, heap, last, aborted, pushes

vars == <<vecs, heap, last, aborted, pushes>>

\* ---------------------------------------------------------------- bounds
\* Largest size argument a call is given (a count of elements or slots).
MaxCap == 4
\* Slots the heap holds between two calls: a call that would leave more
\* allocated is not made.
MaxSlots == 4
\* Block numbers (addresses) the allocator hands out.
NBlocks == 3
\* PushBack calls made in a row on a default-constructed array.
MaxPushes == 9

\* Type() for Type = int
Default == 0

Objs == {"a", "b"}
\* The container only copies and moves its elements, it never looks at one:
\* Type() and one other value tell where the content of every slot came from.
Values == {Default, 1}
Blocks == 1..NBlocks
\* raw_ptr_ of an ArrayPtr that owns nothing
nullptr == 0

Max(x, y) == IF x >= y THEN x ELSE y

\* ------------------------------------------------------------ the heap
\* Slots allocated and not yet deleted.
RECURSIVE SlotsFrom(_, _)
SlotsFrom(h, b) == IF b > NBlocks THEN 0 ELSE Len(h[b]) + SlotsFrom(h, b + 1)

Slots(h) == SlotsFrom(h, 1)

FreeBlocks(h) == {b \in Blocks : h[b] = <<>>}

\* ArrayPtr(size_t size): a fresh block of n slots holding indeterminate
\* values (all g), or nullptr when n = 0.
ArrayPtrNew(h, n, g) ==
    IF n > 0
    THEN LET b == CHOOSE c \in FreeBlocks(h) : \A d \in FreeBlocks(h) : c <= d
         IN  [heap |-> [h EXCEPT ![b] = [i \in 1..n |-> g]], ptr |-> b]
    ELSE [heap |-> h, ptr |-> nullptr]

\* Mutant of ArrayPtrDelete: the block is not freed.
ArrayPtrDeleteNothing(h, p) == h

\* ~ArrayPtr(): delete[] raw_ptr_
ArrayPtrDelete(h, p) == IF p = nullptr THEN h ELSE [h EXCEPT ![p] = <<>>]

\* ArrayPtr::operator[] as a read and as a write.
Get(h, p, i) == h[p][i + 1]

Put(h, p, i, x) == [h EXCEPT ![p][i + 1] = x]

\* FillByMove(first, last, Type()): *first = Type() for first in [first, last)
RECURSIVE FillByMove(_, _, _, _)
FillByMove(h, p, first, lst) ==
    IF first >= lst THEN h
    ELSE FillByMove(Put(h, p, first, Default), p, first + 1, lst)

\* std::fill(first, last, value)
RECURSIVE Fill(_, _, _, _, _)
Fill(h, p, first, lst, x) ==
    IF first >= lst THEN h
    ELSE Fill(Put(h, p, first, x), p, first + 1, lst, x)

\* Mutant of Copy: the last element of the range is left out.
RECURSIVE CopyShort(_, _, _, _, _, _)
CopyShort(h, src, first, lst, dst, dfirst) ==
    IF first + 1 >= lst THEN h
    ELSE CopyShort(Put(h, dst, dfirst, Get(h, src, first)),
                   src, first + 1, lst, dst, dfirst + 1)

\* std::copy / std::move(first, last, d_first): front to back.
RECURSIVE Copy(_, _, _, _, _, _)
Copy(h, src, first, lst, dst, dfirst) ==
    IF first >= lst THEN h
    ELSE Copy(Put(h, dst, dfirst, Get(h, src, first)),
              src, first + 1, lst, dst, dfirst + 1)

\* Mutant of CopyBackward: the range is copied front to back (std::copy), so
\* an overlapping destination is smeared with the first element.
RECURSIVE CopyBackwardFrontFirst(_, _, _, _, _)
CopyBackwardFrontFirst(h, p, first, lst, dlast) ==
    IF first >= lst THEN h
    ELSE CopyBackwardFrontFirst(
             Put(h, p, dlast - (lst - first), Get(h, p, first)),
             p, first + 1, lst, dlast)

\* std::copy_backward / std::move_backward(first, last, d_last): back to front.
RECURSIVE CopyBackward(_, _, _, _, _)
CopyBackward(h, p, first, lst, dlast) ==
    IF first >= lst THEN h
    ELSE CopyBackward(Put(h, p, dlast - 1, Get(h, p, lst - 1)),
                      p, first, lst - 1, dlast - 1)

\* -------------------------------------------------------- SimpleVector
\* An object that is not constructed (or was destroyed).
Dead == [live |-> FALSE, size_ |-> 0, capacity_ |-> 0, items_ |-> nullptr]

\* SimpleVector() noexcept = default
CtorDefault(s, o) ==
    [s EXCEPT !.vecs[o] =
        [live |-> TRUE, size_ |-> 0, capacity_ |-> 0, items_ |-> nullptr]]

\* SimpleVector(size_t size, const Type& value); SimpleVector(size_t size)
\* is the same with value = Type().
CtorFill(s, o, size, value, g) ==
    LET t == ArrayPtrNew(s.heap, size, g)
        h == IF size = 0 THEN t.heap ELSE Fill(t.heap, t.ptr, 0, size, value)
    IN  [vecs |-> [s.vecs EXCEPT ![o] =
                     [live |-> TRUE, size_ |-> size, capacity_ |-> size,
                      items_ |-> t.ptr]],
         heap |-> h]

\* SimpleVector(std::initializer_list<Type> init)
RECURSIVE StoreList(_, _, _, _)
StoreList(h, p, init, i) ==
    IF i >= Len(init) THEN h
    ELSE StoreList(Put(h, p, i, init[i + 1]), p, init, i + 1)

CtorList(s, o, init, g) ==
    LET t == ArrayPtrNew(s.heap, Len(init), g)
    IN  [vecs |-> [s.vecs EXCEPT ![o] =
                     [live |-> TRUE, size_ |-> Len(init),
                      capacity_ |-> Len(init), items_ |-> t.ptr]],
         heap |-> StoreList(t.heap, t.ptr, init, 0)]

\* Mutant of CtorReserve: a hint of 0 is taken as 1, as Reserve(0) is.
CtorReserveAtLeastOne(s, o, n, g) ==
    LET c == IF n = 0 THEN 1 ELSE n
        t == ArrayPtrNew(s.heap, c, g)
    IN  [vecs |-> [s.vecs EXCEPT ![o] =
                     [live |-> TRUE, size_ |-> 0, capacity_ |-> c,
                      items_ |-> t.ptr]],
         heap |-> t.heap]

\* SimpleVector(ReserveProxyObj const& obj): the slots stay as `new` left them.
CtorReserve(s, o, n, g) ==
    LET t == ArrayPtrNew(s.heap, n, g)
    IN  [vecs |-> [s.vecs EXCEPT ![o] =
                     [live |-> TRUE, size_ |-> 0, capacity_ |-> n,
                      items_ |-> t.ptr]],
         heap |-> t.heap]

\* ~SimpleVector(): the member items_ is destroyed.
Dtor(s, o) ==
    [vecs |-> [s.vecs EXCEPT ![o] = Dead],
     heap |-> ArrayPtrDelete(s.heap, s.vecs[o].items_)]

\* Mutant of ReserveTo: 0 is taken as 2.
ReserveToTwo(new_capacity) == IF new_capacity = 0 THEN 2 ELSE new_capacity

\* The capacity Reserve(new_capacity) asks for: 0 is taken as 1.
ReserveTo(new_capacity) == IF new_capacity = 0 THEN 1 ELSE new_capacity

\* Mutant of Reserve: the elements are not moved to the new block.
ReserveDropsElements(s, o, new_capacity, g) ==
    LET v  == s.vecs[o]
        nc == ReserveTo(new_capacity)
    IN  IF nc <= v.capacity_ THEN s
        ELSE LET t  == ArrayPtrNew(s.heap, nc, g)
                 h2 == FillByMove(t.heap, t.ptr, v.size_, nc)
                 h3 == ArrayPtrDelete(h2, v.items_)
             IN  [vecs |-> [s.vecs EXCEPT ![o].items_ = t.ptr,
                                          ![o].capacity_ = nc],
                  heap |-> h3]

\* Mutant of Reserve: `<` for `<=` in the early return, so that asking for
\* the capacity the array has reallocates.
ReserveStrict(s, o, new_capacity, g) ==
    LET v  == s.vecs[o]
        nc == ReserveTo(new_capacity)
    IN  IF nc < v.capacity_ THEN s
        ELSE LET t  == ArrayPtrNew(s.heap, nc, g)
                 h1 == Copy(t.heap, v.items_, 0, v.size_, t.ptr, 0)
                 h2 == FillByMove(h1, t.ptr, v.size_, nc)
                 h3 == ArrayPtrDelete(h2, v.items_)
             IN  [vecs |-> [s.vecs EXCEPT ![o].items_ = t.ptr,
                                          ![o].capacity_ = nc],
                  heap |-> h3]

\* void Reserve(size_t new_capacity)
Reserve(s, o, new_capacity, g) ==
    LET v  == s.vecs[o]
        nc == ReserveTo(new_capacity)
    IN  IF nc <= v.capacity_ THEN s
        ELSE LET t  == ArrayPtrNew(s.heap, nc, g)
                 h1 == Copy(t.heap, v.items_, 0, v.size_, t.ptr, 0)
                 h2 == FillByMove(h1, t.ptr, v.size_, nc)
                 \* items_.swap(temp); temp's destructor deletes the old block
                 h3 == ArrayPtrDelete(h2, v.items_)
             IN  [vecs |-> [s.vecs EXCEPT ![o].items_ = t.ptr,
                                          ![o].capacity_ = nc],
                  heap |-> h3]

\* Mutant of PushBack: a full array grows by one slot.
PushBackGrowsByOne(s, o, value, g) ==
    LET v  == s.vecs[o]
        s1 == IF v.size_ = v.capacity_ THEN Reserve(s, o, v.capacity_ + 1, g) ELSE s
        p  == s1.vecs[o].items_
    IN  [vecs |-> [s1.vecs EXCEPT ![o].size_ = v.size_ + 1],
         heap |-> Put(s1.heap, p, v.size_, value)]

\* void PushBack(const Type& value) / void PushBack(Type&& value)
PushBack(s, o, value, g) ==
    LET v  == s.vecs[o]
        s1 == IF v.size_ = v.capacity_ THEN Reserve(s, o, v.capacity_ * 2, g) ELSE s
        p  == s1.vecs[o].items_
    IN  [vecs |-> [s1.vecs EXCEPT ![o].size_ = v.size_ + 1],
         heap |-> Put(s1.heap, p, v.size_, value)]

\* void PopBack() noexcept
PopBack(s, o) ==
    IF s.vecs[o].size_ = 0 THEN s
    ELSE [s EXCEPT !.vecs[o].size_ = s.vecs[o].size_ - 1]

\* Mutant of Resize: growing within the capacity only sets the size.
ResizeNoFill(s, o, new_size, g) ==
    LET v == s.vecs[o]
    IN  IF new_size = v.size_ THEN s
        ELSE IF new_size <= v.capacity_
        THEN [s EXCEPT !.vecs[o].size_ = new_size]
        ELSE LET s3 == Reserve(s, o, Max(v.capacity_ * 2, new_size), g)
             IN  [s3 EXCEPT !.vecs[o].size_ = new_size]

\* Mutant of Resize: growing past the capacity reserves new_size slots.
ResizeReservesExact(s, o, new_size, g) ==
    LET v == s.vecs[o]
    IN  IF new_size = v.size_ THEN s
        ELSE IF new_size < v.size_
        THEN [s EXCEPT !.vecs[o].size_ = new_size]
        ELSE IF new_size <= v.capacity_
        THEN [vecs |-> [s.vecs EXCEPT ![o].size_ = new_size],
              heap |-> FillByMove(s.heap, v.items_, v.size_, new_size)]
        ELSE LET s3 == Reserve(s, o, new_size, g)
             IN  [s3 EXCEPT !.vecs[o].size_ = new_size]

\* void Resize(size_t new_size): three `if`s run one after the other.  The
\* unused `Type* test = &items_[6]` of the second only takes an address.
Resize(s, o, new_size, g) ==
    LET v == s.vecs[o]
    IN  IF new_size = v.size_ THEN s
        ELSE
        LET s1 == IF new_size < v.size_
                  THEN [s EXCEPT !.vecs[o].size_ = new_size]
                  ELSE s
            v1 == s1.vecs[o]
            s2 == IF new_size > v1.size_ /\ new_size <= v1.capacity_
                  THEN [vecs |-> [s1.vecs EXCEPT ![o].size_ = new_size],
                        heap |-> FillByMove(s1.heap, v1.items_, v1.size_, new_size)]
                  ELSE s1
            v2 == s2.vecs[o]
        IN  IF new_size > v2.capacity_
            THEN LET s3 == Reserve(s2, o, Max(v2.capacity_ * 2, new_size), g)
                 IN  [s3 EXCEPT !.vecs[o].size_ = new_size]
            ELSE s2

\* Mutant of Clear: the block is given back.
ClearReleases(s, o) ==
    [vecs |-> [s.vecs EXCEPT ![o].size_ = 0, ![o].capacity_ = 0,
                             ![o].items_ = nullptr],
     heap |-> ArrayPtrDelete(s.heap, s.vecs[o].items_)]

\* void Clear() noexcept: Resize(0), which allocates nothing.
Clear(s, o) == Resize(s, o, 0, Default)

\* Mutant of EraseShift: the loop stops one element early.
RECURSIVE EraseShiftStopsEarly(_, _, _, _)
EraseShiftStopsEarly(h, p, k, size) ==
    IF k + 2 >= size THEN h
    ELSE EraseShiftStopsEarly(Put(h, p, k, Get(h, p, k + 1)), p, k + 1, size)

\* The loop of Erase: *temp_it = std::move(*next_it) while next_it != cend().
RECURSIVE EraseShift(_, _, _, _)
EraseShift(h, p, k, size) ==
    IF k + 1 >= size THEN h
    ELSE EraseShift(Put(h, p, k, Get(h, p, k + 1)), p, k + 1, size)

\* Iterator Erase(ConstIterator pos), pos = begin() + k; returns `it`.
Erase(s, o, k) ==
    LET v == s.vecs[o]
    IN  [vecs |-> [s.vecs EXCEPT ![o].size_ = v.size_ - 1],
         heap |-> EraseShift(s.heap, v.items_, k, v.size_),
         ret  |-> [ptr |-> v.items_, idx |-> k]]

\* assert(pos >= begin() && pos < end()) of Insert and Erase, pos = begin() + k
PosAssert(v, k) == k >= 0 /\ k < v.size_

\* Mutant of Insert: the iterator returned is one past the new element.
InsertReturnsNext(s, o, shift, value, g) ==
    LET v  == s.vecs[o]
        s1 == IF v.size_ = v.capacity_ THEN Reserve(s, o, v.capacity_ * 2, g) ELSE s
        p  == s1.vecs[o].items_
        h1 == CopyBackward(s1.heap, p, shift, v.size_, v.size_ + 1)
    IN  [vecs |-> [s1.vecs EXCEPT ![o].size_ = v.size_ + 1],
         heap |-> Put(h1, p, shift, value),
         ret  |-> [ptr |-> p, idx |-> shift + 1]]

\* Iterator Insert(ConstIterator pos, const Type& value) and the Type&&
\* overload, pos = begin() + shift; returns pos2.
Insert(s, o, shift, value, g) ==
    LET v  == s.vecs[o]
        s1 == IF v.size_ = v.capacity_ THEN Reserve(s, o, v.capacity_ * 2, g) ELSE s
        p  == s1.vecs[o].items_
        h1 == CopyBackward(s1.heap, p, shift, v.size_, v.size_ + 1)
    IN  [vecs |-> [s1.vecs EXCEPT ![o].size_ = v.size_ + 1],
         heap |-> Put(h1, p, shift, value),
         ret  |-> [ptr |-> p, idx |-> shift]]

\* Type& operator[](size_t index) used to assign: v[index] = value
SetAt(s, o, index, value) ==
    [s EXCEPT !.heap = Put(s.heap, s.vecs[o].items_, index, value)]

\* ArrayPtr::swap
ArrayPtrSwap(vs, o, other) ==
    [vs EXCEPT ![o].items_ = vs[other].items_, ![other].items_ = vs[o].items_]

\* Mutant of ArrayPtrMoveAssign: the pointers are never exchanged.
ArrayPtrMoveAssignNoSwap(vs, o, other) == vs

\* ArrayPtr& operator=(ArrayPtr&& other)
ArrayPtrMoveAssign(vs, o, other) ==
    IF vs[o].items_ = vs[other].items_ THEN vs ELSE ArrayPtrSwap(vs, o, other)

\* Mutant of Swap: the capacities are not exchanged.
SwapKeepsCapacity(s, o, rhs) ==
    LET v1 == ArrayPtrSwap(s.vecs, o, rhs)
        v2 == [v1 EXCEPT ![o].size_ = v1[rhs].size_, ![rhs].size_ = v1[o].size_]
    IN  [vecs |-> v2, heap |-> s.heap]

\* void swap(SimpleVector& rhs) noexcept
Swap(s, o, rhs) ==
    LET v1 == ArrayPtrSwap(s.vecs, o, rhs)
        v2 == [v1 EXCEPT ![o].size_ = v1[rhs].size_, ![rhs].size_ = v1[o].size_]
        v3 == [v2 EXCEPT ![o].capacity_ = v2[rhs].capacity_,
                         ![rhs].capacity_ = v2[o].capacity_]
    IN  [vecs |-> v3, heap |-> s.heap]

\* SimpleVector(const SimpleVector& other)
CtorCopy(s, o, other, g) ==
    LET w == s.vecs[other]
        t == ArrayPtrNew(s.heap, w.size_, g)
        h == Copy(t.heap, w.items_, 0, w.size_, t.ptr, 0)
    IN  [vecs |-> [s.vecs EXCEPT ![o] =
                     [live |-> TRUE, size_ |-> w.size_, capacity_ |-> w.size_,
                      items_ |-> t.ptr]],
         heap |-> h]

\* assert(this->items_.Get() != rhs.items_.Get()) of copy assignment
CopyAssignAssert(vs, o, rhs) == vs[o].items_ # vs[rhs].items_

\* SimpleVector& operator=(const SimpleVector& rhs)
CopyAssign(s, o, rhs, g) ==
    LET w == s.vecs[rhs]
        t == ArrayPtrNew(s.heap, w.size_, g)
        h == Copy(t.heap, w.items_, 0, w.size_, t.ptr, 0)
    IN  [vecs |-> [s.vecs EXCEPT ![o].items_ = t.ptr,
                                 ![o].size_ = w.size_,
                                 ![o].capacity_ = w.size_],
         \* items_.swap(temp); temp's destructor deletes the old block
         heap |-> ArrayPtrDelete(h, s.vecs[o].items_)]

\* SimpleVector(SimpleVector&& other) noexcept
CtorMove(s, o, other) ==
    LET v0 == [s.vecs EXCEPT ![o] =
                 [live |-> TRUE, size_ |-> s.vecs[other].size_,
                  capacity_ |-> s.vecs[other].capacity_, items_ |-> nullptr]]
        v1 == ArrayPtrMoveAssign(v0, o, other)
        v2 == [v1 EXCEPT ![other].size_ = 0]
        v3 == [v2 EXCEPT ![other].capacity_ = 0]
    IN  [vecs |-> v3, heap |-> s.heap]

\* Mutant of MoveAssign: the source keeps its size.
MoveAssignKeepsSize(s, o, other) ==
    LET v1 == ArrayPtrMoveAssign(s.vecs, o, other)
        v2 == [v1 EXCEPT ![o].size_ = v1[other].size_]
        v4 == [v2 EXCEPT ![o].capacity_ = v2[other].capacity_]
        v5 == [v4 EXCEPT ![other].capacity_ = 0]
    IN  [vecs |-> v5, heap |-> s.heap]

\* Mutant of MoveAssign: the source keeps its capacity.
MoveAssignKeepsCapacity(s, o, other) ==
    LET v1 == ArrayPtrMoveAssign(s.vecs, o, other)
        v2 == [v1 EXCEPT ![o].size_ = v1[other].size_]
        v3 == [v2 EXCEPT ![other].size_ = 0]
        v4 == [v3 EXCEPT ![o].capacity_ = v3[other].capacity_]
    IN  [vecs |-> v4, heap |-> s.heap]

\* SimpleVector& operator=(SimpleVector&& other) noexcept; other may be *this.
MoveAssign(s, o, other) ==
    LET v1 == ArrayPtrMoveAssign(s.vecs, o, other)
        v2 == [v1 EXCEPT ![o].size_ = v1[other].size_]
        v3 == [v2 EXCEPT ![other].size_ = 0]
        v4 == [v3 EXCEPT ![o].capacity_ = v3[other].capacity_]
        v5 == [v4 EXCEPT ![other].capacity_ = 0]
    IN  [vecs |-> v5, heap |-> s.heap]

\* ------------------------------------------- the slots a call reads or writes
\* Which slots a call touches does not depend on what the slots hold: a
\* block that `new` has just made is taken with Type() in its slots.
\* *(raw_ptr_ + i) with raw_ptr_ = p is a slot of the block p points to.
InBlock(h, p, i) == p # nullptr /\ i >= 0 /\ i < Len(h[p])

\* The same for every slot of [first, lst).
RangeInBlock(h, p, first, lst) == \A i \in first..(lst - 1) : InBlock(h, p, i)

\* Reserve: std::move reads [0, size_) of items_ and writes [0, size_) of
\* temp, FillByMove writes [size_, new_capacity) of temp.
ReserveInBlock(s, o, new_capacity) ==
    LET v  == s.vecs[o]
        nc == ReserveTo(new_capacity)
    IN  IF nc <= v.capacity_ THEN TRUE
        ELSE LET t == ArrayPtrNew(s.heap, nc, Default)
             IN  /\ RangeInBlock(t.heap, v.items_, 0, v.size_)
                 /\ RangeInBlock(t.heap, t.ptr, 0, v.size_)
                 /\ RangeInBlock(t.heap, t.ptr, v.size_, nc)

\* PushBack: Reserve when full, then items_[size_] is written.
PushBackInBlock(s, o) ==
    LET v    == s.vecs[o]
        full == v.size_ = v.capacity_
        s1   == IF full THEN Reserve(s, o, v.capacity_ * 2, Default) ELSE s
    IN  /\ full => ReserveInBlock(s, o, v.capacity_ * 2)
        /\ InBlock(s1.heap, s1.vecs[o].items_, v.size_)

\* Insert: Reserve when full, then copy_backward reads [shift, size_) and
\* writes [shift + 1, size_ + 1), and *pos2 is written.
InsertInBlock(s, o, shift) ==
    LET v    == s.vecs[o]
        full == v.size_ = v.capacity_
        s1   == IF full THEN Reserve(s, o, v.capacity_ * 2, Default) ELSE s
        p    == s1.vecs[o].items_
    IN  /\ full => ReserveInBlock(s, o, v.capacity_ * 2)
        /\ RangeInBlock(s1.heap, p, shift, v.size_)
        /\ RangeInBlock(s1.heap, p, shift + 1, v.size_ + 1)
        /\ InBlock(s1.heap, p, shift)

\* Erase: the loop reads [k + 1, size_) and writes [k, size_ - 1).
EraseInBlock(s, o, k) ==
    LET v == s.vecs[o]
    IN  /\ RangeInBlock(s.heap, v.items_, k + 1, v.size_)
        /\ RangeInBlock(s.heap, v.items_, k, v.size_ - 1)

\* Resize: FillByMove writes [size_, new_size) when new_size <= capacity_,
\* else Reserve runs.  `&items_[6]` reads and writes nothing.
ResizeInBlock(s, o, new_size) ==
    LET v == s.vecs[o]
    IN  IF new_size <= v.size_ THEN TRUE
        ELSE IF new_size <= v.capacity_
        THEN RangeInBlock(s.heap, v.items_, v.size_, new_size)
        ELSE ReserveInBlock(s, o, Max(v.capacity_ * 2, new_size))

\* operator[] and At (when it does not throw): items_[index]
SubscriptInBlock(s, o, index) == InBlock(s.heap, s.vecs[o].items_, index)

\* The copy constructor and the copy assignment: std::copy reads
\* [0, size_) of the source and writes [0, size_) of temp.
CopyInBlock(s, other) ==
    LET w == s.vecs[other]
        t == ArrayPtrNew(s.heap, w.size_, Default)
    IN  /\ RangeInBlock(t.heap, w.items_, 0, w.size_)
        /\ RangeInBlock(t.heap, t.ptr, 0, w.size_)

\* SimpleVector(size, value) and SimpleVector(init): [0, size) of items_
\* is written.
CtorInBlock(s, size) ==
    LET t == ArrayPtrNew(s.heap, size, Default)
    IN  RangeInBlock(t.heap, t.ptr, 0, size)

\* operator== (when the sizes are equal) and operator<: the slots below the
\* smaller size are read in both arrays, at most.
CompareInBlock(s, lhs, rhs, both) ==
    LET n == IF s.vecs[lhs].size_ <= s.vecs[rhs].size_
             THEN s.vecs[lhs].size_ ELSE s.vecs[rhs].size_
    IN  both =>
           /\ RangeInBlock(s.heap, s.vecs[lhs].items_, 0, n)
           /\ RangeInBlock(s.heap, s.vecs[rhs].items_, 0, n)

\* ------------------------------------------------------------- actions
\* The program is a caller making one call after the other on the two
\* objects.  `last` is the record of the call that has just returned, until
\* the caller goes on (Continue): the operation, the object it was called
\* on, the other object (copy, move, swap), the iterator returned (Insert,
\* Erase), whether the object's buffer pointer changed, and a note about the
\* state the call found, or the boolean the call answered (operator==,
\* operator<), or that it threw (At).  `aborted`: an assert of the library
\* failed (the build keeps its asserts, as the tests, which check with
\* assert, need).
Cur == [vecs |-> vecs, heap |-> heap]

\* No iterator or reference is returned.
NoRet == [ptr |-> nullptr, idx |-> -1]

\* Type& operator[](size_t index): the reference items_[index]
Subscript(s, o, index) == [ptr |-> s.vecs[o].items_, idx |-> index]

\* Mutant of At: `>` for `>=`, so that At(size) returns a reference.
AtOffByOne(s, o, index) ==
    IF index > s.vecs[o].size_
    THEN [threw |-> TRUE, ret |-> NoRet]
    ELSE [threw |-> FALSE, ret |-> [ptr |-> s.vecs[o].items_, idx |-> index]]

\* Type& At(size_t index): throws std::out_of_range when index >= size_,
\* else returns the reference items_[index].
At(s, o, index) ==
    IF index >= s.vecs[o].size_
    THEN [threw |-> TRUE, ret |-> NoRet]
    ELSE [threw |-> FALSE, ret |-> [ptr |-> s.vecs[o].items_, idx |-> index]]

\* std::equal(first1, last1, first2) over [first, lst) of block p against
\* block q from its slot first on.
RECURSIVE StdEqual(_, _, _, _, _)
StdEqual(h, p, first, lst, q) ==
    IF first >= lst THEN TRUE
    ELSE IF Get(h, p, first) # Get(h, q, first) THEN FALSE
    ELSE StdEqual(h, p, first + 1, lst, q)

\* Mutant of Equals: arrays of different capacity are not equal.
EqualsWithCapacity(s, lhs, rhs) ==
    IF s.vecs[lhs].size_ # s.vecs[rhs].size_ THEN FALSE
    ELSE IF s.vecs[lhs].capacity_ # s.vecs[rhs].capacity_ THEN FALSE
    ELSE StdEqual(s.heap, s.vecs[lhs].items_, 0, s.vecs[lhs].size_,
                  s.vecs[rhs].items_)

\* bool operator==(const SimpleVector& lhs, const SimpleVector& rhs)
Equals(s, lhs, rhs) ==
    IF s.vecs[lhs].size_ # s.vecs[rhs].size_ THEN FALSE
    ELSE StdEqual(s.heap, s.vecs[lhs].items_, 0, s.vecs[lhs].size_,
                  s.vecs[rhs].items_)

\* std::lexicographical_compare(first1, last1, first2, last2): the loop runs
\* while both ranges have elements; then the first range must have ended
\* and the second not.
RECURSIVE LexicographicalCompare(_, _, _, _, _, _)
LexicographicalCompare(h, p, first, lst1, q, lst2) ==
    IF first < lst1 /\ first < lst2
    THEN IF Get(h, p, first) < Get(h, q, first) THEN TRUE
         ELSE IF Get(h, q, first) < Get(h, p, first) THEN FALSE
         ELSE LexicographicalCompare(h, p, first + 1, lst1, q, lst2)
    ELSE first >= lst1 /\ first < lst2

\* bool operator<(const SimpleVector& lhs, const SimpleVector& rhs)
Less(s, lhs, rhs) ==
    LexicographicalCompare(s.heap, s.vecs[lhs].items_, 0, s.vecs[lhs].size_,
                           s.vecs[rhs].items_, s.vecs[rhs].size_)

Idle == [op |-> "-", obj |-> "-", src |-> "-", ret |-> NoRet,
         grew |-> FALSE, note |-> FALSE]

Op(name, o, src, ret, r, note) ==
    [op |-> name, obj |-> o, src |-> src, ret |-> ret,
     grew |-> r.vecs[o].items_ # vecs[o].items_, note |-> note]

\* The state a call leaves is within the bounds.
Fits(r) == Slots(r.heap) <= MaxSlots

Returns(r, l) ==
    /\ last = Idle
    /\ Fits(r)
    /\ vecs' = r.vecs
    /\ heap' = r.heap
    /\ last' = l
    /\ aborted' = FALSE
    /\ pushes' = pushes

Aborts(name, o, src) ==
    /\ last = Idle
    /\ vecs' = vecs
    /\ heap' = heap
    /\ last' = Op(name, o, src, NoRet, Cur, FALSE)
    /\ aborted' = TRUE
    /\ pushes' = pushes

Lists == UNION {[1..n -> Values] : n \in 0..MaxCap}

Init ==
    /\ vecs = [o \in Objs |->
                 [live |-> TRUE, size_ |-> 0, capacity_ |-> 0, items_ |-> nullptr]]
    /\ heap = [b \in Blocks |-> <<>>]
    /\ last = Idle
    /\ aborted = FALSE
    /\ pushes = 0

CallCtorDefault(o) ==
    /\ ~vecs[o].live
    /\ LET r == CtorDefault(Cur, o)
       IN  Returns(r, Op("SimpleVector()", o, "-", NoRet, r, FALSE))

CallCtorFill(o, n, x, g) ==
    /\ ~vecs[o].live
    /\ LET r == CtorFill(Cur, o, n, x, g)
       IN  Returns(r, Op("SimpleVector(size, value)", o, "-", NoRet, r, FALSE))

CallCtorList(o, init, g) ==
    /\ ~vecs[o].live
    /\ LET r == CtorList(Cur, o, init, g)
       IN  Returns(r, Op("SimpleVector(init)", o, "-", NoRet, r, FALSE))

CallCtorReserve(o, n, g) ==
    /\ ~vecs[o].live
    /\ LET r == CtorReserve(Cur, o, n, g)
       IN  Returns(r, Op("SimpleVector(Reserve)", o, "-", NoRet, r, FALSE))

CallCtorCopy(o, other, g) ==
    /\ ~vecs[o].live /\ vecs[other].live
    /\ LET r == CtorCopy(Cur, o, other, g)
       IN  Returns(r, Op("SimpleVector(const&)", o, other, NoRet, r, FALSE))

CallCtorMove(o, other) ==
    /\ ~vecs[o].live /\ vecs[other].live
    /\ LET r == CtorMove(Cur, o, other)
       IN  Returns(r, Op("SimpleVector(&&)", o, other, NoRet, r, FALSE))

CallDtor(o) ==
    /\ vecs[o].live
    /\ LET r == Dtor(Cur, o)
       IN  Returns(r, Op("~SimpleVector", o, "-", NoRet, r, FALSE))

CallCopyAssign(o, rhs, g) ==
    /\ vecs[o].live /\ vecs[rhs].live /\ o # rhs
    /\ IF CopyAssignAssert(vecs, o, rhs)
       THEN LET r == CopyAssign(Cur, o, rhs, g)
            IN  Returns(r, Op("operator=(const&)", o, rhs, NoRet, r, FALSE))
       ELSE Aborts("operator=(const&)", o, rhs)

CallMoveAssign(o, other) ==
    /\ vecs[o].live /\ vecs[other].live
    /\ LET r == MoveAssign(Cur, o, other)
       IN  Returns(r, Op("operator=(&&)", o, other, NoRet, r, FALSE))

CallSwap(o, rhs) ==
    /\ vecs[o].live /\ vecs[rhs].live /\ o # rhs
    /\ LET r == Swap(Cur, o, rhs)
       IN  Returns(r, Op("swap", o, rhs, NoRet, r, FALSE))

CallSetAt(o, index, x) ==
    /\ vecs[o].live
    /\ index < vecs[o].size_
    /\ LET r == SetAt(Cur, o, index, x)
       IN  Returns(r, Op("operator[]", o, "-", NoRet, r, FALSE))

CallClear(o) ==
    /\ vecs[o].live
    /\ LET r == Clear(Cur, o)
       IN  Returns(r, Op("Clear", o, "-", NoRet, r, FALSE))

\* The slots [size, new_size) of the block held a value other than Type().
StaleTail(o, new_size) ==
    /\ vecs[o].items_ # nullptr
    /\ \E i \in vecs[o].size_ .. (new_size - 1) :
          /\ i < Len(heap[vecs[o].items_])
          /\ Get(heap, vecs[o].items_, i) # Default

CallResize(o, n, g) ==
    /\ vecs[o].live
    /\ LET r == Resize(Cur, o, n, g)
       IN  Returns(r, Op("Resize", o, "-", NoRet, r, StaleTail(o, n)))

CallReserve(o, n, g) ==
    /\ vecs[o].live
    /\ LET r == Reserve(Cur, o, n, g)
       IN  Returns(r, Op("Reserve", o, "-", NoRet, r, FALSE))

CallPushBack(o, x, g) ==
    /\ vecs[o].live
    /\ LET r == PushBack(Cur, o, x, g)
       IN  Returns(r, Op("PushBack", o, "-", NoRet, r, FALSE))

CallPopBack(o) ==
    /\ vecs[o].live
    /\ LET r == PopBack(Cur, o)
       IN  Returns(r, Op("PopBack", o, "-", NoRet, r, FALSE))

\* Insert(begin() + k, x), k in [0, size]: the tests insert at end() too.
CallInsert(o, k, x, g) ==
    /\ vecs[o].live
    /\ k <= vecs[o].size_
    /\ IF PosAssert(vecs[o], k)
       THEN LET r == Insert(Cur, o, k, x, g)
            IN  Returns(r, Op("Insert", o, "-", r.ret, r, FALSE))
       ELSE Aborts("Insert", o, "-")

\* Erase(begin() + k), k in [0, size).
CallErase(o, k) ==
    /\ vecs[o].live
    /\ PosAssert(vecs[o], k)
    /\ LET r == Erase(Cur, o, k)
       IN  Returns(r, Op("Erase", o, "-", r.ret, r, FALSE))

\* v.At(index), index any size_t within the bound.
CallAt(o, index) ==
    /\ vecs[o].live
    /\ LET r == At(Cur, o, index)
       IN  Returns(Cur, Op("At", o, "-", r.ret, Cur, r.threw))

\* lhs == rhs; lhs and rhs may be the same object.
CallEquals(lhs, rhs) ==
    /\ vecs[lhs].live /\ vecs[rhs].live
    /\ Returns(Cur, Op("operator==", lhs, rhs, NoRet, Cur, Equals(Cur, lhs, rhs)))

\* lhs < rhs; lhs and rhs may be the same object.
CallLess(lhs, rhs) ==
    /\ vecs[lhs].live /\ vecs[rhs].live
    /\ Returns(Cur, Op("operator<", lhs, rhs, NoRet, Cur, Less(Cur, lhs, rhs)))

\* v.Erase(v.Insert(v.begin() + k, x)), k in [0, size): Erase is given the
\* iterator Insert returned and asserts that it lies in [begin(), end()).
CallInsertErase(o, k, x, g) ==
    /\ vecs[o].live
    /\ PosAssert(vecs[o], k)
    /\ LET r1 == Insert(Cur, o, k, x, g)
       IN  IF r1.ret.ptr = r1.vecs[o].items_ /\ PosAssert(r1.vecs[o], r1.ret.idx)
           THEN LET r2 == Erase(r1, o, r1.ret.idx)
                IN  Returns(r2, Op("Insert; Erase", o, "-", r2.ret, r2, FALSE))
           ELSE Aborts("Insert; Erase", o, "-")

\* o.swap(rhs); o.swap(rhs);
CallSwapTwice(o, rhs) ==
    /\ vecs[o].live /\ vecs[rhs].live /\ o # rhs
    /\ LET r == Swap(Swap(Cur, o, rhs), o, rhs)
       IN  Returns(r, Op("swap; swap", o, rhs, NoRet, r, FALSE))

\* The caller goes on to its next call.
Continue ==
    /\ last # Idle
    /\ ~aborted
    /\ last' = Idle
    /\ UNCHANGED <<vecs, heap, aborted, pushes>>

\* One action per operation: the caller, idle, makes the call with some
\* arguments.
DoCtorDefault ==
    /\ last = Idle
    /\ \E o \in Objs : CallCtorDefault(o)

DoCtorFill ==
    /\ last = Idle
    /\ \E o \in Objs, n \in 0..MaxCap, x \in Values, g \in Values : CallCtorFill(o, n, x, g)

DoCtorList ==
    /\ last = Idle
    /\ \E o \in Objs, init \in Lists, g \in Values : CallCtorList(o, init, g)

DoCtorReserve ==
    /\ last = Idle
    /\ \E o \in Objs, n \in 0..MaxCap, g \in Values : CallCtorReserve(o, n, g)

DoCtorCopy ==
    /\ last = Idle
    /\ \E o \in Objs, other \in Objs, g \in Values : CallCtorCopy(o, other, g)

DoCtorMove ==
    /\ last = Idle
    /\ \E o \in Objs, other \in Objs : CallCtorMove(o, other)

DoDtor ==
    /\ last = Idle
    /\ \E o \in Objs : CallDtor(o)

DoCopyAssign ==
    /\ last = Idle
    /\ \E o \in Objs, rhs \in Objs, g \in Values : CallCopyAssign(o, rhs, g)

DoMoveAssign ==
    /\ last = Idle
    /\ \E o \in Objs, other \in Objs : CallMoveAssign(o, other)

DoSwap ==
    /\ last = Idle
    /\ \E o \in Objs, rhs \in Objs : CallSwap(o, rhs)

DoSetAt ==
    /\ last = Idle
    /\ \E o \in Objs, i \in 0..MaxCap, x \in Values : CallSetAt(o, i, x)

DoClear ==
    /\ last = Idle
    /\ \E o \in Objs : CallClear(o)

DoResize ==
    /\ last = Idle
    /\ \E o \in Objs, n \in 0..MaxCap, g \in Values : CallResize(o, n, g)

DoReserve ==
    /\ last = Idle
    /\ \E o \in Objs, n \in 0..MaxCap, g \in Values : CallReserve(o, n, g)

DoPushBack ==
    /\ last = Idle
    /\ \E o \in Objs, x \in Values, g \in Values : CallPushBack(o, x, g)

DoPopBack ==
    /\ last = Idle
    /\ \E o \in Objs : CallPopBack(o)

DoInsert ==
    /\ last = Idle
    /\ \E o \in Objs, k \in 0..MaxCap, x \in Values, g \in Values : CallInsert(o, k, x, g)

DoErase ==
    /\ last = Idle
    /\ \E o \in Objs, k \in 0..MaxCap : CallErase(o, k)

DoAt ==
    /\ last = Idle
    /\ \E o \in Objs, i \in 0..MaxCap : CallAt(o, i)

DoEquals ==
    /\ last = Idle
    /\ \E lhs \in Objs, rhs \in Objs : CallEquals(lhs, rhs)

DoLess ==
    /\ last = Idle
    /\ \E lhs \in Objs, rhs \in Objs : CallLess(lhs, rhs)

DoInsertErase ==
    /\ last = Idle
    /\ \E o \in Objs, k \in 0..MaxCap, x \in Values, g \in Values :
          CallInsertErase(o, k, x, g)

DoSwapTwice ==
    /\ last = Idle
    /\ \E o \in Objs, rhs \in Objs : CallSwapTwice(o, rhs)

Next ==
    \/ DoCtorDefault
    \/ DoCtorFill
    \/ DoCtorList
    \/ DoCtorReserve
    \/ DoCtorCopy
    \/ DoCtorMove
    \/ DoDtor
    \/ DoCopyAssign
    \/ DoMoveAssign
    \/ DoSwap
    \/ DoSetAt
    \/ DoClear
    \/ DoResize
    \/ DoReserve
    \/ DoPushBack
    \/ DoPopBack
    \/ DoInsert
    \/ DoErase
    \/ DoAt
    \/ DoEquals
    \/ DoLess
    \/ DoInsertErase
    \/ DoSwapTwice
    \/ Continue

Spec == Init /\ [][Next]_vars

\* A second caller: starting with the default-constructed array "a", it
\* makes PushBack calls and nothing else, `pushes` of them so far (the caller
\* of Spec is not this caller, and leaves `pushes` at 0).  `last` is the
\* record of the PushBack that has just returned.
PushAgain ==
    /\ pushes < MaxPushes
    /\ \E x \in Values, g \in Values :
          LET r == PushBack(Cur, "a", x, g)
          IN  /\ vecs' = r.vecs
              /\ heap' = r.heap
              /\ last' = Op("PushBack", "a", "-", NoRet, r, FALSE)
              /\ aborted' = FALSE
              /\ pushes' = pushes + 1

PushSpec == Init /\ [][PushAgain]_vars

\* -------------------------------------------------------------- claims
\* Element i of array o in the state before and after a step.
Old(o, i) == Get(heap, vecs[o].items_, i)

New(o, i) == Get(heap', vecs'[o].items_, i)

\* The elements [0, n) of array o are the same before and after a step.
SamePrefix(o, n) == \A i \in 0..(n - 1) : New(o, i) = Old(o, i)

\* The step is the call named `name` on array o (a cheap test put in front
\* of the action that makes the call).
Called(name, o) == last = Idle /\ last'.op = name /\ last'.obj = o

\* The capacity a full array grows to: 1 from 0, else twice the capacity.
Grown(c) == IF c = 0 THEN 1 ELSE 2 * c

\* C1: in every state reachable by the operations of the two arrays (the
\* constructors, PushBack, PopBack, Insert, Erase, Resize, Reserve, Clear,
\* swap, copy and move construction and assignment), 0 <= size <= capacity
\* holds for every array.
SizeWithinCapacity ==
    \A o \in Objs : 0 <= vecs[o].size_ /\ vecs[o].size_ <= vecs[o].capacity_

\* C1 witness: a move assignment has just emptied a source that held
\* elements, and the destination is full.
SizeWithinCapacityWitness ==
    /\ last.op = "operator=(&&)"
    /\ last.obj # last.src
    /\ vecs[last.obj].size_ = 2
    /\ vecs[last.obj].capacity_ = 2
    /\ vecs[last.src].items_ # nullptr

\* C2: PushBack(v) increases size by exactly 1, stores v at index old_size
\* and leaves the elements at [0, old_size) unchanged and in order, whether
\* or not the call reallocates.
PushBackAppends ==
    [][\A o \in Objs, x \in Values, g \in Values :
          (Called("PushBack", o) /\ CallPushBack(o, x, g)) =>
             /\ vecs'[o].size_ = vecs[o].size_ + 1
             /\ New(o, vecs[o].size_) = x
             /\ SamePrefix(o, vecs[o].size_)]_vars

\* C2 witness: a PushBack that reallocated an array of two different
\* elements.
PushBackAppendsWitness ==
    /\ last.op = "PushBack"
    /\ last.grew
    /\ vecs[last.obj].size_ = 3
    /\ Get(heap, vecs[last.obj].items_, 0) # Get(heap, vecs[last.obj].items_, 1)

\* C3: PushBack changes capacity only when size = capacity before the call:
\* the new capacity is then 1 if the old one was 0 and twice the old one
\* otherwise; when size < capacity, capacity and the buffer are unchanged.
PushBackGrowth ==
    [][\A o \in Objs, x \in Values, g \in Values :
          (Called("PushBack", o) /\ CallPushBack(o, x, g)) =>
             IF vecs[o].size_ = vecs[o].capacity_
             THEN vecs'[o].capacity_ = Grown(vecs[o].capacity_)
             ELSE /\ vecs'[o].capacity_ = vecs[o].capacity_
                  /\ vecs'[o].items_ = vecs[o].items_]_vars

\* C3 witness: a PushBack on a full array of capacity 2 has grown it to 4.
PushBackGrowthWitness ==
    /\ last.op = "PushBack"
    /\ last.grew
    /\ vecs[last.obj].size_ = 3
    /\ vecs[last.obj].capacity_ = 4

\* C4: for 0 <= p < size, Insert(begin() + p, v) yields a[0..p), v,
\* a[p..size) with size increased by 1, grows capacity by PushBack's rule
\* only if the array was full, and returns an iterator to index p of the
\* (possibly new) buffer.
InsertShifts ==
    [][\A o \in Objs :
          Called("Insert", o) =>
          \A k \in 0..MaxCap, x \in Values, g \in Values :
          (CallInsert(o, k, x, g) /\ k < vecs[o].size_) =>
             /\ ~aborted'
             /\ vecs'[o].size_ = vecs[o].size_ + 1
             /\ SamePrefix(o, k)
             /\ New(o, k) = x
             /\ \A i \in k..(vecs[o].size_ - 1) : New(o, i + 1) = Old(o, i)
             /\ vecs'[o].capacity_ =
                   IF vecs[o].size_ = vecs[o].capacity_
                   THEN Grown(vecs[o].capacity_) ELSE vecs[o].capacity_
             /\ last'.ret = [ptr |-> vecs'[o].items_, idx |-> k]]_vars

\* C4 witness: an Insert in front of two different elements that
\* reallocated.
InsertShiftsWitness ==
    /\ last.op = "Insert"
    /\ ~aborted
    /\ last.grew
    /\ last.ret.idx = 0
    /\ vecs[last.obj].size_ = 3
    /\ Get(heap, vecs[last.obj].items_, 1) # Get(heap, vecs[last.obj].items_, 2)

\* C5: Insert(end(), v) on a non-empty array is an accepted call that
\* appends v: no precondition assertion fails, size increases by 1, the last
\* element is v and the earlier elements are unchanged.
InsertAtEndAppends ==
    [][\A o \in Objs, x \in Values, g \in Values :
          (/\ Called("Insert", o)
           /\ vecs[o].size_ > 0
           /\ CallInsert(o, vecs[o].size_, x, g)) =>
             /\ ~aborted'
             /\ vecs'[o].size_ = vecs[o].size_ + 1
             /\ New(o, vecs[o].size_) = x
             /\ SamePrefix(o, vecs[o].size_)]_vars

\* C6: for 0 <= p < size, Erase(begin() + p) yields a[0..p), a[p+1..size)
\* with size decreased by 1 and capacity unchanged, and returns an iterator
\* to index p: the element that followed the erased one, end() if none did.
EraseShifts ==
    [][\A o \in Objs :
          Called("Erase", o) =>
          \A k \in 0..MaxCap :
          CallErase(o, k) =>
             /\ vecs'[o].size_ = vecs[o].size_ - 1
             /\ vecs'[o].capacity_ = vecs[o].capacity_
             /\ vecs'[o].items_ = vecs[o].items_
             /\ SamePrefix(o, k)
             /\ \A i \in k..(vecs[o].size_ - 2) : New(o, i) = Old(o, i + 1)
             /\ last'.ret = [ptr |-> vecs'[o].items_, idx |-> k]]_vars

\* C6 witness: the first of three elements was erased and the two left
\* differ.
EraseShiftsWitness ==
    /\ last.op = "Erase"
    /\ last.ret.idx = 0
    /\ vecs[last.obj].size_ = 2
    /\ Get(heap, vecs[last.obj].items_, 0) # Get(heap, vecs[last.obj].items_, 1)

\* C7: Resize(n) with n > size leaves the elements at [0, old_size)
\* unchanged and makes every element at [old_size, n) equal to Type(), when
\* n <= capacity and when n > capacity, whatever the slots held before.
ResizeFillsDefault ==
    [][\A o \in Objs :
          Called("Resize", o) =>
          \A n \in 0..MaxCap, g \in Values :
          (CallResize(o, n, g) /\ n > vecs[o].size_) =>
             /\ SamePrefix(o, vecs[o].size_)
             /\ \A i \in vecs[o].size_ .. (n - 1) : New(o, i) = Default]_vars

\* C7 witness: a Resize has grown an array in place over a slot that held a
\* value other than Type().
ResizeFillsDefaultWitness ==
    /\ last.op = "Resize"
    /\ last.note
    /\ ~last.grew
    /\ vecs[last.obj].size_ >= 2

\* C8: after Resize(n) size = n; capacity is unchanged when n <= old
\* capacity (n = size changes nothing at all, n < size only truncates) and
\* is max(2 x old capacity, n) when n > old capacity.
ResizeSizeCapacity ==
    [][\A o \in Objs :
          Called("Resize", o) =>
          \A n \in 0..MaxCap, g \in Values :
          CallResize(o, n, g) =>
             /\ vecs'[o].size_ = n
             /\ n <= vecs[o].capacity_ =>
                   /\ vecs'[o].capacity_ = vecs[o].capacity_
                   /\ vecs'[o].items_ = vecs[o].items_
             /\ n = vecs[o].size_ => vecs' = vecs /\ heap' = heap
             /\ n < vecs[o].size_ => heap' = heap
             /\ n > vecs[o].capacity_ =>
                   vecs'[o].capacity_ = Max(2 * vecs[o].capacity_, n)]_vars

\* C8 witness: a Resize(3) past a capacity of 2 has made the capacity 4.
ResizeSizeCapacityWitness ==
    /\ last.op = "Resize"
    /\ last.grew
    /\ vecs[last.obj].size_ = 3
    /\ vecs[last.obj].capacity_ = 4

\* C9 as stated: for every n <= capacity (n = 0 and capacity = 0 included),
\* Reserve(n) changes neither capacity nor size and does not reallocate.
ReserveWithinCapacityNoOp ==
    [][\A o \in Objs :
          Called("Reserve", o) =>
          \A n \in 0..MaxCap, g \in Values :
          (CallReserve(o, n, g) /\ n <= vecs[o].capacity_) =>
             /\ vecs'[o] = vecs[o]
             /\ heap' = heap]_vars

\* C9 amended: for every array of capacity >= 1 and every n <= capacity
\* (n = 0 included), Reserve(n) changes neither capacity nor size and does
\* not reallocate; on an array of capacity 0, Reserve(0) allocates a block
\* of one slot and sets the capacity to 1, leaving size 0.
ReserveWithinCapacity ==
    [][\A o \in Objs :
          Called("Reserve", o) =>
          \A n \in 0..MaxCap, g \in Values :
          (CallReserve(o, n, g) /\ n <= vecs[o].capacity_) =>
             IF vecs[o].capacity_ >= 1
             THEN /\ vecs'[o] = vecs[o]
                  /\ heap' = heap
             ELSE /\ vecs'[o].capacity_ = 1
                  /\ vecs'[o].size_ = 0
                  /\ vecs'[o].items_ # vecs[o].items_
                  /\ Len(heap'[vecs'[o].items_]) = 1]_vars

\* C9 witness: a Reserve has returned without reallocating an array that
\* holds elements.
ReserveWithinCapacityWitness ==
    /\ last.op = "Reserve"
    /\ ~last.grew
    /\ vecs[last.obj].size_ >= 1
    /\ vecs[last.obj].capacity_ >= 2

\* C10: for every n > capacity, Reserve(n) sets capacity to exactly n,
\* leaves size unchanged and leaves the elements at [0, size) unchanged and
\* in order in a newly allocated buffer; no Reserve decreases capacity.
ReserveGrows ==
    [][\A o \in Objs :
          Called("Reserve", o) =>
          \A n \in 0..MaxCap, g \in Values :
          CallReserve(o, n, g) =>
             /\ vecs'[o].capacity_ >= vecs[o].capacity_
             /\ n > vecs[o].capacity_ =>
                   /\ vecs'[o].capacity_ = n
                   /\ vecs'[o].size_ = vecs[o].size_
                   /\ vecs'[o].items_ # vecs[o].items_
                   /\ Len(heap'[vecs'[o].items_]) = n
                   /\ SamePrefix(o, vecs[o].size_)]_vars

\* C10 witness: a Reserve(3) has moved two different elements to a new
\* block of three slots.
ReserveGrowsWitness ==
    /\ last.op = "Reserve"
    /\ last.grew
    /\ vecs[last.obj].size_ = 2
    /\ vecs[last.obj].capacity_ = 3
    /\ Get(heap, vecs[last.obj].items_, 0) # Get(heap, vecs[last.obj].items_, 1)

\* The step is a move of array src into array o: the move constructor or
\* the move assignment.
Moved(o, src) ==
    \/ Called("SimpleVector(&&)", o) /\ CallCtorMove(o, src)
    \/ Called("operator=(&&)", o) /\ CallMoveAssign(o, src)

\* C11: move-constructing from, or move-assigning to a distinct destination
\* (empty or not), a source array S leaves the destination with S's former
\* size, capacity and elements in order, held in S's former buffer, and S
\* with size 0 and capacity 0.
MoveTransfers ==
    [][\A o \in Objs, src \in Objs :
          (Moved(o, src) /\ o # src) =>
             /\ vecs'[o].size_ = vecs[src].size_
             /\ vecs'[o].capacity_ = vecs[src].capacity_
             /\ vecs'[o].items_ = vecs[src].items_
             /\ \A i \in 0..(vecs[src].size_ - 1) : New(o, i) = Old(src, i)
             /\ vecs'[src].size_ = 0
             /\ vecs'[src].capacity_ = 0
             /\ heap' = heap]_vars

\* C11 witness: a move assignment has given a destination that owned a block
\* the two different elements of its source.
MoveTransfersWitness ==
    /\ last.op = "operator=(&&)"
    /\ last.obj # last.src
    /\ last.grew
    /\ vecs[last.src].items_ # nullptr
    /\ vecs[last.obj].size_ = 2
    /\ Get(heap, vecs[last.obj].items_, 0) # Get(heap, vecs[last.obj].items_, 1)

\* C12: in every reachable state (after a move assignment into a non-empty
\* array and after a self-move-assignment too) each array's buffer holds a
\* block of exactly `capacity` slots; an array of capacity 0 owns no block.
BlockOfCapacitySlots ==
    \A o \in Objs :
       vecs[o].live =>
          IF vecs[o].capacity_ = 0
          THEN vecs[o].items_ = nullptr
          ELSE /\ vecs[o].items_ # nullptr
               /\ Len(heap[vecs[o].items_]) = vecs[o].capacity_

\* C13: a move (move construction, or move assignment from a distinct source
\* into any destination, empty or owning a block) leaves the source owning
\* nothing and the destination owning the block the source owned.
MoveLeavesSourceEmpty ==
    [][\A o \in Objs, src \in Objs :
          (Moved(o, src) /\ o # src) =>
             /\ vecs'[src].items_ = nullptr
             /\ vecs'[o].items_ = vecs[src].items_]_vars

\* The step is a copy of array src into array o: the copy constructor or
\* the copy assignment.
Copied(o, src, g) ==
    \/ Called("SimpleVector(const&)", o) /\ CallCtorCopy(o, src, g)
    \/ Called("operator=(const&)", o) /\ CallCopyAssign(o, src, g)

\* The step is a call on array o alone.
CalledOn(o) == last = Idle /\ last'.obj = o /\ last'.src = "-"

\* The array p and the content of its block are the same after the step.
Untouched(p) ==
    /\ vecs'[p] = vecs[p]
    /\ vecs[p].items_ # nullptr => heap'[vecs[p].items_] = heap[vecs[p].items_]

\* C14: copy-constructing from, or copy-assigning, a source array S yields
\* an array with size = S.size, capacity = S.size (not S.capacity), S's
\* elements in order, in a buffer that is not S's; S (size, capacity,
\* elements, buffer) is unchanged, and a later call on either array leaves
\* the other unchanged.
CopyIsDeep ==
    [][/\ \A o \in Objs, src \in Objs, g \in Values :
             Copied(o, src, g) =>
                /\ ~aborted'
                /\ vecs'[o].size_ = vecs[src].size_
                /\ vecs'[o].capacity_ = vecs[src].size_
                /\ \A i \in 0..(vecs[src].size_ - 1) : New(o, i) = Old(src, i)
                /\ vecs'[o].items_ = nullptr \/ vecs'[o].items_ # vecs'[src].items_
                /\ Untouched(src)
       /\ \A o \in Objs, p \in Objs : (CalledOn(o) /\ p # o) => Untouched(p)]_vars

\* C15: every allocated and not yet freed block is owned by exactly one live
\* buffer (never shared, never orphaned); no block is freed twice: a
\* buffer's pointer is null or a block that is still allocated, so that each
\* delete[] is given a block not freed before; and when every array has been
\* destroyed every block has been freed.
OwnedByExactlyOne ==
    /\ \A b \in Blocks :
          heap[b] # <<>> =>
             Cardinality({o \in Objs : vecs[o].live /\ vecs[o].items_ = b}) = 1
    /\ \A o \in Objs :
          vecs[o].items_ # nullptr =>
             vecs[o].live /\ heap[vecs[o].items_] # <<>>
    /\ (\A o \in Objs : ~vecs[o].live) => \A b \in Blocks : heap[b] = <<>>

\* C15 witness: the last array has just been destroyed, it owned a block,
\* and no block is left.
OwnedByExactlyOneWitness ==
    /\ last.op = "~SimpleVector"
    /\ last.grew
    /\ \A o \in Objs : ~vecs[o].live
    /\ \A b \in Blocks : heap[b] = <<>>

\* C16: for every array and index i, At(i) signals an out-of-range error if
\* and only if i >= size, and then leaves size, capacity and the elements
\* unchanged; when i < size it returns a reference to the same element as
\* operator[](i).
AtChecksRange ==
    [][\A o \in Objs :
          Called("At", o) =>
          \A i \in 0..MaxCap :
          CallAt(o, i) =>
             /\ last'.note <=> (i >= vecs[o].size_)
             /\ vecs' = vecs
             /\ heap' = heap
             /\ i < vecs[o].size_ => last'.ret = Subscript(Cur, o, i)]_vars

\* C16 witness: At has thrown on an array that holds elements and has slots
\* it does not use.
AtChecksRangeWitness ==
    /\ last.op = "At"
    /\ last.note
    /\ vecs[last.obj].size_ >= 1
    /\ vecs[last.obj].capacity_ > vecs[last.obj].size_

\* C17: for every array, position p in [0, size) and value v,
\* Insert(begin() + p, v) followed by Erase at the iterator returned leaves
\* the array with the size and the elements, in order, it had, whether or
\* not the Insert reallocated.
InsertEraseRestores ==
    [][\A o \in Objs :
          Called("Insert; Erase", o) =>
          \A k \in 0..MaxCap, x \in Values, g \in Values :
          CallInsertErase(o, k, x, g) =>
             /\ ~aborted'
             /\ vecs'[o].size_ = vecs[o].size_
             /\ SamePrefix(o, vecs[o].size_)]_vars

\* C17 witness: Insert, then Erase, on a full array of two different
\* elements: the Insert has reallocated.
InsertEraseRestoresWitness ==
    /\ last.op = "Insert; Erase"
    /\ ~aborted
    /\ last.grew
    /\ vecs[last.obj].size_ = 2
    /\ Get(heap, vecs[last.obj].items_, 0) # Get(heap, vecs[last.obj].items_, 1)

\* C18: a.swap(b) exchanges buffer, size and capacity without allocating:
\* afterwards a has b's former size, capacity, elements and buffer address
\* and b has a's; swapping twice restores both arrays exactly.
SwapExchanges ==
    [][\A o \in Objs, rhs \in Objs :
          /\ (Called("swap", o) /\ CallSwap(o, rhs)) =>
                /\ vecs'[o] = vecs[rhs]
                /\ vecs'[rhs] = vecs[o]
                /\ heap' = heap
          /\ (Called("swap; swap", o) /\ CallSwapTwice(o, rhs)) =>
                /\ vecs' = vecs
                /\ heap' = heap]_vars

\* C18 witness: a swap of two arrays that own blocks of different capacity
\* and hold different numbers of elements.
SwapExchangesWitness ==
    /\ last.op = "swap"
    /\ vecs[last.obj].items_ # nullptr
    /\ vecs[last.src].items_ # nullptr
    /\ vecs[last.obj].size_ # vecs[last.src].size_
    /\ vecs[last.obj].capacity_ # vecs[last.src].capacity_

\* C19: Clear sets size to 0; PopBack decreases size by 1 on a non-empty
\* array and changes nothing on an empty one; both leave capacity, the
\* buffer (begin()) and the content of the slots unchanged.
TruncationKeepsBuffer ==
    [][\A o \in Objs :
          /\ (Called("Clear", o) /\ CallClear(o)) =>
                /\ vecs' = [vecs EXCEPT ![o].size_ = 0]
                /\ heap' = heap
          /\ (Called("PopBack", o) /\ CallPopBack(o)) =>
                /\ vecs' = [vecs EXCEPT ![o].size_ =
                               IF vecs[o].size_ = 0 THEN 0 ELSE vecs[o].size_ - 1]
                /\ heap' = heap]_vars

\* C19 witness: Clear has emptied an array whose block still holds two
\* different values.
TruncationKeepsBufferWitness ==
    /\ last.op = "Clear"
    /\ vecs[last.obj].size_ = 0
    /\ vecs[last.obj].capacity_ >= 2
    /\ Get(heap, vecs[last.obj].items_, 0) # Get(heap, vecs[last.obj].items_, 1)

\* Arrays a and b have the same size and equal elements at every index.
SameElements(a, b) ==
    /\ vecs[a].size_ = vecs[b].size_
    /\ \A i \in 0..(vecs[a].size_ - 1) : Old(a, i) = Old(b, i)

\* The element sequence of a is before that of b in lexicographic order:
\* they agree on the first k elements, and then a has ended and b has not,
\* or a's next element is smaller than b's.
LexBefore(a, b) ==
    \E k \in 0..vecs[a].size_ :
       /\ k <= vecs[b].size_
       /\ \A i \in 0..(k - 1) : Old(a, i) = Old(b, i)
       /\ \/ k = vecs[a].size_ /\ k < vecs[b].size_
          \/ /\ k < vecs[a].size_
             /\ k < vecs[b].size_
             /\ Old(a, k) < Old(b, k)

\* C20: a == b holds iff a and b have the same size and equal elements at
\* every index < size (capacity and the slots at indices >= size play no
\* part); equality is reflexive and symmetric; a == b implies !(a < b) and
\* !(b < a); a < b is the lexicographic order on the element sequences.
EqualityAndOrder ==
    [][\A lhs \in Objs, rhs \in Objs :
          /\ (Called("operator==", lhs) /\ CallEquals(lhs, rhs)) =>
                /\ last'.note <=> SameElements(lhs, rhs)
                /\ lhs = rhs => last'.note
                /\ last'.note <=> Equals(Cur, rhs, lhs)
                /\ last'.note => ~Less(Cur, lhs, rhs) /\ ~Less(Cur, rhs, lhs)
          /\ (Called("operator<", lhs) /\ CallLess(lhs, rhs)) =>
                last'.note <=> LexBefore(lhs, rhs)]_vars

\* C20 witness: operator== has found equal two arrays that hold an element,
\* have different capacities, and one of which has a slot past its size whose
\* content differs from its element.
EqualityAndOrderWitness ==
    /\ last.op = "operator=="
    /\ last.note
    /\ last.obj # last.src
    /\ vecs[last.obj].size_ = 1
    /\ vecs[last.obj].capacity_ = 1
    /\ vecs[last.src].capacity_ >= 2
    /\ Get(heap, vecs[last.src].items_, 1) # Get(heap, vecs[last.src].items_, 0)

\* The array o has just been constructed with size n and capacity c, in a
\* block of c slots of its own, or in none when c = 0.
Constructed(o, n, c) ==
    /\ vecs'[o].live
    /\ vecs'[o].size_ = n
    /\ vecs'[o].capacity_ = c
    /\ IF c = 0
       THEN vecs'[o].items_ = nullptr /\ heap' = heap
       ELSE /\ vecs'[o].items_ # nullptr
            /\ heap[vecs'[o].items_] = <<>>
            /\ Len(heap'[vecs'[o].items_]) = c

\* C21: the default constructor gives size 0, capacity 0 and no buffer
\* (begin() = end() = nullptr); SimpleVector(n) gives (n, n) with every
\* element Type(); SimpleVector(n, v) gives (n, n) with every element v; the
\* list constructor gives (len, len) with the elements in list order; the
\* reservation hint Reserve(h) gives (0, h), and capacity 0 for h = 0.
ConstructorsEstablish ==
    [][\A o \in Objs :
          /\ (Called("SimpleVector()", o) /\ CallCtorDefault(o)) =>
                Constructed(o, 0, 0)
          /\ Called("SimpleVector(size, value)", o) =>
                \A n \in 0..MaxCap, x \in Values, g \in Values :
                CallCtorFill(o, n, x, g) =>
                   /\ Constructed(o, n, n)
                   /\ \A i \in 0..(n - 1) : New(o, i) = x
          /\ Called("SimpleVector(init)", o) =>
                \A init \in Lists, g \in Values :
                CallCtorList(o, init, g) =>
                   /\ Constructed(o, Len(init), Len(init))
                   /\ \A i \in 0..(Len(init) - 1) : New(o, i) = init[i + 1]
          /\ Called("SimpleVector(Reserve)", o) =>
                \A n \in 0..MaxCap, g \in Values :
                CallCtorReserve(o, n, g) => Constructed(o, 0, n)]_vars

\* C21 witness: the reservation constructor was given a hint of 0 and the
\* other array owns a block.
ConstructorsEstablishWitness ==
    /\ last.op = "SimpleVector(Reserve)"
    /\ vecs[last.obj].capacity_ = 0
    /\ vecs[last.obj].items_ = nullptr
    /\ \E p \in Objs : vecs[p].items_ # nullptr

\* C22: in every state reachable by calls whose preconditions are met
\* (index < size for operator[], pos in [begin, end) for Insert and Erase),
\* every slot such a call reads or writes has an index smaller than the
\* number of slots of the block the array owns at that moment; Insert's
\* shift into slot `size` and PushBack's store into slot `size` land inside
\* the block.  Stated, between two calls, of every call the caller can make
\* next.
SlotsInsideBlock ==
    last = Idle =>
       \A o \in Objs :
          vecs[o].live =>
             /\ PushBackInBlock(Cur, o)
             /\ \A k \in 0..MaxCap :
                   PosAssert(vecs[o], k) =>
                      /\ InsertInBlock(Cur, o, k)
                      /\ EraseInBlock(Cur, o, k)
             /\ \A n \in 0..MaxCap :
                   /\ ResizeInBlock(Cur, o, n)
                   /\ ReserveInBlock(Cur, o, n)
                   /\ CtorInBlock(Cur, n)
             /\ \A i \in 0..MaxCap :
                   i < vecs[o].size_ => SubscriptInBlock(Cur, o, i)
             /\ \A i \in 0..MaxCap :
                   ~At(Cur, o, i).threw => SubscriptInBlock(Cur, o, i)
             /\ CopyInBlock(Cur, o)
             /\ \A rhs \in Objs :
                   vecs[rhs].live =>
                      /\ CompareInBlock(Cur, o, rhs,
                                        vecs[o].size_ = vecs[rhs].size_)
                      /\ CompareInBlock(Cur, o, rhs, TRUE)

\* C22 witness: between two calls, an array left with capacity 0 by a move
\* assignment still owns a block, and the other array is full with two
\* elements: a PushBack or an Insert on either has to reallocate.
SlotsInsideBlockWitness ==
    /\ last = Idle
    /\ \E o \in Objs, p \in Objs :
          /\ vecs[o].live
          /\ vecs[o].capacity_ = 0
          /\ vecs[o].items_ # nullptr
          /\ vecs[p].live
          /\ vecs[p].size_ = 2
          /\ vecs[p].capacity_ = 2

\* C23: a copy assignment between two distinct array objects never trips
\* its aliasing assertion (that the two arrays do not hold the same buffer),
\* for every reachable pair of states, also when neither array owns a buffer
\* (both default-constructed, or both of capacity 0).
CopyAssignNeverAsserts ==
    [][\A o \in Objs :
          Called("operator=(const&)", o) =>
             \A rhs \in Objs, g \in Values :
                (CallCopyAssign(o, rhs, g) /\ o # rhs) => ~aborted']_vars

\* The smallest of c, 2c, 4c, ... that is >= k.
RECURSIVE DoubleUpTo(_, _)
DoubleUpTo(c, k) == IF c >= k THEN c ELSE DoubleUpTo(2 * c, k)

\* The smallest power of two that is >= k.
PowerOfTwoFrom(k) == DoubleUpTo(1, k)

\* C24: starting from a default-constructed array, after k >= 1 consecutive
\* PushBack calls the size is k and the capacity is the smallest power of
\* two >= k (the capacities seen are 1, 2, 4, 8, ...), and a PushBack
\* reallocates only when it is the push numbered 1, 2, 3, 5, 9, ...
\* (1, or 2^j + 1).
PushBackDoubles ==
    pushes >= 1 =>
       /\ vecs["a"].size_ = pushes
       /\ vecs["a"].capacity_ = PowerOfTwoFrom(pushes)
       /\ Len(heap[vecs["a"].items_]) = vecs["a"].capacity_
       /\ last.grew <=> (pushes = 1 \/ PowerOfTwoFrom(pushes - 1) = pushes - 1)

\* C24 witness: the ninth PushBack in a row has reallocated, to a capacity
\* of 16.
PushBackDoublesWitness ==
    /\ pushes = 9
    /\ last.op = "PushBack"
    /\ last.grew
    /\ vecs["a"].capacity_ = 16

====
